---------------------------- MODULE Spec2Model ----------------------------
(***************************************************************************)
(* SentriCard: the fraud scoring service (services/fraudDetection.js), the *)
(* transaction controller that persists scored transactions               *)
(* (controllers/transactionController.js) and the statistics summaries.    *)
(*                                                                         *)
(* Conventions of the model                                                *)
(*  - a JavaScript value that may be undefined is a sequence of length 0   *)
(*    (None) or 1 (Some(v));                                               *)
(*  - scores are counted in tenths of a point (Scale), so that 12.5 is 125 *)
(*    and the threshold 70 is 700; the products 25*0.8, 25*0.5, 20*0.6 and *)
(*    20*0.7 are exact in IEEE doubles (20, 12.5, 12, 14);                 *)
(*  - instants are whole hours since the epoch and getHours() is the       *)
(*    instant modulo 24;                                                   *)
(*  - city names are sequences of characters, because the location factor  *)
(*    compares them with String.prototype.includes.                        *)
(***************************************************************************)
EXTENDS Integers, Sequences, FiniteSets, TLC

VARIABLES users, db, now, reqs, stats, revs

vars == <<users, db, now, reqs, stats, revs>>

-----------------------------------------------------------------------------
(* Bounds of the model *)

\* seeded transactions of the profiled user present before the first request
MaxSeed == 11
\* concurrent processTransaction requests
MaxReq == 2
\* concurrent reviewer requests (confirm, false-positive, fraud-status)
MaxRev == 1

-----------------------------------------------------------------------------
(* JavaScript values *)

None == <<>>
Some(v) == <<v>>
Has(x) == x # None
Val(x) == x[1]

Scale == 10

\* String.prototype.includes on character sequences
Includes(s, sub) ==
  \E i \in 0..(Len(s) - Len(sub)) : SubSeq(s, i + 1, i + Len(sub)) = sub

NewYork == <<"N", "e", "w", " ", "Y", "o", "r", "k">>
York == <<"Y", "o", "r", "k">>
Lagos == <<"L", "a", "g", "o", "s">>
Online == <<"O", "n", "l", "i", "n", "e">>

HoursPerDay == 24
\* Date.now(): the requests of one run arrive within the same hour
Now0 == 60

\* new Date(timestamp).getHours(): NaN (None) for a missing timestamp
getHours(timestamp) ==
  IF Has(timestamp) THEN Some(Val(timestamp) % HoursPerDay) ELSE None

\* a < b on JavaScript numbers: false as soon as one side is NaN or undefined
Lt(a, b) == Has(a) /\ Has(b) /\ Val(a) < Val(b)

-----------------------------------------------------------------------------
(* The stored collections *)

U1 == "u1"
U2 == "u2"
UserIds == {U1, U2}

\* User documents: typicalSpendingPatterns of the schema, every field optional
Profiles ==
  [ homeCountry : {"USA"},
    averageTransactionAmount : {None, Some(100)},
    frequentCategories : {{"groceries"}},
    frequentLocations : {<<>>, <<York>>},
    activeHours : {None, Some([start |-> 8, end |-> 23])} ]

\* the fields of a request body that the scorer or the schema read
Locations ==
  {None} \cup
  { Some([country |-> c[1], city |-> c[2]]) :
      c \in { <<"USA", None>>, <<"Nigeria", None>>, <<"USA", Some(NewYork)>>,
              <<"USA", Some(Lagos)>>, <<"USA", Some(Online)>>,
              <<"Nigeria", Some(Lagos)>> } }

Overrides ==
  { [fraudScore |-> None, isFlagged |-> None, isConfirmedFraud |-> None],
    [fraudScore |-> Some(990), isFlagged |-> Some(TRUE),
     isConfirmedFraud |-> Some(TRUE)] }

MkBody(u, a, l, c, t, d, o) ==
  [ userId |-> u, amount |-> a, location |-> l, merchantCategory |-> c,
    timestamp |-> t, deviceId |-> d, fraudScore |-> o.fraudScore,
    isFlagged |-> o.isFlagged, isConfirmedFraud |-> o.isConfirmedFraud ]

Amounts == {200, 250, 350, 550}
Categories == {"groceries", "electronics"}
Timestamps == {None, Some(Now0 - 2), Some(Now0 - 9)}
DeviceIds == {None, Some("dev1"), Some("dev2"), Some("unknown_device")}

Bodies ==
  { MkBody(U1, Some(a), l, c, t, d, o) :
      a \in Amounts, l \in Locations, c \in Categories, t \in Timestamps,
      d \in DeviceIds, o \in Overrides }
  \cup
  { MkBody(u, a, l, "electronics", None, Some("dev2"), o) :
      u \in UserIds, a \in {None, Some(550)},
      l \in {None, Some([country |-> "Nigeria", city |-> Some(Lagos)])},
      o \in Overrides }

\* Transaction documents as stored
Doc(id, body, timestamp, fraudScore, isFlagged, isConfirmedFraud) ==
  [ id |-> id, userId |-> body.userId, amount |-> body.amount,
    location |-> body.location, merchantCategory |-> body.merchantCategory,
    timestamp |-> timestamp, deviceId |-> body.deviceId,
    fraudScore |-> fraudScore, isFlagged |-> isFlagged,
    isConfirmedFraud |-> isConfirmedFraud ]

\* the i-th transaction of U1 stored before the first request (inserted by
\* the seeding script or by earlier requests). The first one is exactly 24
\* hours old and carries no deviceId; the others are 10 hours old.
SeedDoc(i) ==
  Doc(i,
      MkBody(U1, Some(100), Some([country |-> "USA", city |-> Some(NewYork)]),
             "groceries", None, IF i = 1 THEN None ELSE Some("dev1"),
             [fraudScore |-> None, isFlagged |-> None, isConfirmedFraud |-> None]),
      IF i = 1 THEN Now0 - HoursPerDay ELSE Now0 - 10, 0, FALSE, FALSE)

Seed(n) == [i \in 1..n |-> SeedDoc(i)]


-----------------------------------------------------------------------------
(* services/fraudDetection.js: analyzeTransaction *)

weights ==
  [ amount |-> 25 * Scale, location |-> 20 * Scale, category |-> 15 * Scale,
    time |-> 15 * Scale, frequency |-> 20 * Scale, device |-> 5 * Scale ]

\* weight * 0.f, for the fraction f tenths
Frac(weight, f) == (weight * f) \div 10

HighRiskThreshold == 70 * Scale

\* score += w; riskFactors.push(text)
Add(acc, w, text) ==
  [score |-> acc.score + w, riskFactors |-> Append(acc.riskFactors, text)]

Acc0 == [score |-> 0, riskFactors |-> <<>>]

\* user.typicalSpendingPatterns.averageTransactionAmount || 100
userAvgAmount(user) ==
  IF Has(user.averageTransactionAmount) /\ Val(user.averageTransactionAmount) # 0
  THEN Val(user.averageTransactionAmount)
  ELSE 100

\* the tiers compared with >= : an amount of exactly twice the average counts
AmountFactorInclusive(acc, transaction, user) ==
  LET avg == userAvgAmount(user)
      amount == transaction.amount
  IN IF ~Lt(amount, Some(avg * 5)) /\ Has(amount)
     THEN Add(acc, weights.amount, "Transaction amount 5x higher than user average")
     ELSE IF ~Lt(amount, Some(avg * 3)) /\ Has(amount)
     THEN Add(acc, Frac(weights.amount, 8), "Transaction amount 3x higher than user average")
     ELSE IF ~Lt(amount, Some(avg * 2)) /\ Has(amount)
     THEN Add(acc, Frac(weights.amount, 5), "Transaction amount 2x higher than user average")
     ELSE acc

\* Factor 1: the else-if chain on the amount
AmountFactor(acc, transaction, user) ==
  LET avg == userAvgAmount(user)
      amount == transaction.amount
  IN IF Lt(Some(avg * 5), amount)
     THEN Add(acc, weights.amount, "Transaction amount 5x higher than user average")
     ELSE IF Lt(Some(avg * 3), amount)
     THEN Add(acc, Frac(weights.amount, 8), "Transaction amount 3x higher than user average")
     ELSE IF Lt(Some(avg * 2), amount)
     THEN Add(acc, Frac(weights.amount, 5), "Transaction amount 2x higher than user average")
     ELSE acc

\* Factor 2 dereferences transaction.location and calls includes on its city:
\* a TypeError when the location is missing, or when the city is missing and
\* the callback of some() runs at least once
LocationThrows(transaction, user) ==
  \/ ~Has(transaction.location)
  \/ /\ ~Has(Val(transaction.location).city)
     /\ user.frequentLocations # <<>>

isKnownLocation(transaction, user) ==
  LET city == Val(transaction.location).city
  IN \E k \in 1..Len(user.frequentLocations) :
        LET loc == user.frequentLocations[k]
        IN Includes(Val(city), loc) \/ Includes(loc, Val(city))

\* Factor 2, for a transaction on which it does not throw
LocationFactor(acc, transaction, user) ==
  LET location == Val(transaction.location)
  IN IF location.country # user.homeCountry
     THEN Add(acc, weights.location, "Transaction from foreign country")
     ELSE IF ~isKnownLocation(transaction, user) /\ location.city # Some(Online)
     THEN Add(acc, Frac(weights.location, 6), "Transaction from unusual city")
     ELSE acc

\* Factor 3
CategoryFactor(acc, transaction, user) ==
  IF transaction.merchantCategory \notin user.frequentCategories
  THEN Add(acc, weights.category, "Unusual merchant category for this user")
  ELSE acc

\* Factor 4: comparisons with NaN or undefined are false
isOutsideActiveHours(transaction, user) ==
  LET transactionHour == getHours(transaction.timestamp)
      start == IF Has(user.activeHours) THEN Some(Val(user.activeHours).start) ELSE None
      end == IF Has(user.activeHours) THEN Some(Val(user.activeHours).end) ELSE None
  IN Lt(transactionHour, start) \/ Lt(end, transactionHour)

TimeFactor(acc, transaction, user) ==
  IF isOutsideActiveHours(transaction, user)
  THEN Add(acc, weights.time, "Transaction outside typical active hours")
  ELSE acc

\* Factor 5: recentTransactions.filter(t => new Date(t.timestamp) > last24Hours).length
recentCount(recentTransactions, nowT) ==
  LET last24Hours == nowT - HoursPerDay
  IN Cardinality({k \in 1..Len(recentTransactions) :
                    recentTransactions[k].timestamp > last24Hours})

\* the lower tier adds to the score without its risk-factor string
FrequencyFactorSilent(acc, recentTransactions, nowT) ==
  LET n == recentCount(recentTransactions, nowT)
  IN IF n > 8
     THEN Add(acc, weights.frequency, "Extremely high transaction frequency (>8 in 24h)")
     ELSE IF n > 5
     THEN [acc EXCEPT !.score = @ + Frac(weights.frequency, 7)]
     ELSE acc

FrequencyFactor(acc, recentTransactions, nowT) ==
  LET n == recentCount(recentTransactions, nowT)
  IN IF n > 8
     THEN Add(acc, weights.frequency, "Extremely high transaction frequency (>8 in 24h)")
     ELSE IF n > 5
     THEN Add(acc, Frac(weights.frequency, 7), "High transaction frequency (>5 in 24h)")
     ELSE acc

\* Factor 6: undefined === undefined holds for two missing deviceIds
isKnownDevice(transaction, recentTransactions) ==
  \E k \in 1..Len(recentTransactions) :
     recentTransactions[k].deviceId = transaction.deviceId

DeviceFactor(acc, transaction, recentTransactions) ==
  IF ~isKnownDevice(transaction, recentTransactions)
     /\ transaction.deviceId # Some("unknown_device")
  THEN Add(acc, weights.device, "Transaction from new device")
  ELSE acc

\* the catch block: the fallback result
ErrorResult(message) ==
  [ score |-> 0, riskFactors |-> <<"Error analyzing transaction">>,
    isHighRisk |-> FALSE, error |-> Some(message) ]

\* the return statement with the comparison against 60
ScoreResultAbove60(acc) ==
  [ score |-> acc.score, riskFactors |-> acc.riskFactors,
    isHighRisk |-> acc.score > 60 * Scale, error |-> None ]

\* the return statement of the try block
ScoreResult(acc) ==
  [ score |-> acc.score, riskFactors |-> acc.riskFactors,
    isHighRisk |-> acc.score > HighRiskThreshold, error |-> None ]

\* the body of the try block once the user and the recent transactions are read
Score(transaction, user, recentTransactions, nowT) ==
  IF LocationThrows(transaction, user)
  THEN ErrorResult("TypeError")
  ELSE ScoreResult(
         DeviceFactor(
           FrequencyFactor(
             TimeFactor(
               CategoryFactor(
                 LocationFactor(
                   AmountFactor(Acc0, transaction, user),
                   transaction, user),
                 transaction, user),
               transaction, user),
             recentTransactions, nowT),
           transaction, recentTransactions))

-----------------------------------------------------------------------------
(* Transaction.find({userId}).sort({timestamp: -1}).limit(10) *)

HistoryLimit == 10

RECURSIVE InsertDesc(_, _)
\* insert d into a sequence sorted by timestamp descending, after its equals
InsertDesc(s, d) ==
  IF s = <<>> THEN <<d>>
  ELSE IF d.timestamp > Head(s).timestamp THEN <<d>> \o s
  ELSE <<Head(s)>> \o InsertDesc(Tail(s), d)

RECURSIVE SortDesc(_)
SortDesc(s) ==
  IF s = <<>> THEN <<>>
  ELSE InsertDesc(SortDesc(SubSeq(s, 1, Len(s) - 1)), s[Len(s)])

\* limit(n - 1): one document fewer than asked for
LimitOneShort(s, n) == SubSeq(s, 1, IF Len(s) < n - 1 THEN Len(s) ELSE n - 1)

Limit(s, n) == SubSeq(s, 1, IF Len(s) < n THEN Len(s) ELSE n)

RECURSIVE Reverse(_)
Reverse(s) == IF s = <<>> THEN <<>> ELSE Append(Reverse(Tail(s)), Head(s))

\* sort({timestamp: 1}): the ten oldest instead of the ten latest
FindRecentOldestFirst(collection, userId) ==
  Limit(Reverse(SortDesc(SelectSeq(collection, LAMBDA d : d.userId = userId))),
        HistoryLimit)

FindRecent(collection, userId) ==
  Limit(SortDesc(SelectSeq(collection, LAMBDA d : d.userId = userId)), HistoryLimit)


-----------------------------------------------------------------------------
(* controllers/transactionController.js: processTransaction, one request   *)
(* per slot. Each await is a step: User.findById, Transaction.find and     *)
(* transaction.save resolve one at a time, interleaved with other requests *)

Requests == 1..MaxReq

IdleReq ==
  [pc |-> "idle", body |-> None, user |-> None, recent |-> <<>>,
   analysis |-> None, doc |-> None]

\* the spread written last: the fields of the body replace the computed ones
NewTransactionBodyLast(body, analysis, nowT) ==
  Doc(0, body,
      IF Has(body.timestamp) THEN Val(body.timestamp) ELSE nowT,
      IF Has(body.fraudScore) THEN Val(body.fraudScore) ELSE analysis.score,
      IF Has(body.isFlagged) THEN Val(body.isFlagged)
      ELSE analysis.score > HighRiskThreshold,
      IF Has(body.isConfirmedFraud) THEN Val(body.isConfirmedFraud) ELSE FALSE)

\* new Transaction({...req.body, fraudScore: score, isFlagged: score > 70}):
\* the two computed fields replace those of the body, the schema defaults
\* fill in a missing timestamp (Date.now) and isConfirmedFraud (false)
NewTransaction(body, analysis, nowT) ==
  Doc(0, body,
      IF Has(body.timestamp) THEN Val(body.timestamp) ELSE nowT,
      analysis.score,
      analysis.score > HighRiskThreshold,
      IF Has(body.isConfirmedFraud) THEN Val(body.isConfirmedFraud) ELSE FALSE)

\* POST /api/transactions arrives: analyzeTransaction(req.body) starts and
\* awaits User.findById
Receive(r, bodies) ==
  /\ reqs[r].pc = "idle"
  /\ \E body \in bodies :
       reqs' = [reqs EXCEPT ![r] = [IdleReq EXCEPT !.pc = "findUser",
                                                   !.body = Some(body)]]
  /\ UNCHANGED <<users, db, now, stats, revs>>

\* User.findById resolves. Without a user the throw is caught inside
\* analyzeTransaction, which returns the fallback result; the controller
\* builds the document from it and awaits save. With a user the scorer
\* awaits Transaction.find
UserFound(r) ==
  /\ reqs[r].pc = "findUser"
  /\ LET body == Val(reqs[r].body)
         user == users[body.userId]
     IN IF ~Has(user)
        THEN LET analysis == ErrorResult("User not found")
             IN reqs' = [reqs EXCEPT ![r].pc = "save",
                                     ![r].analysis = Some(analysis),
                                     ![r].doc = Some(NewTransaction(body, analysis, now))]
        ELSE reqs' = [reqs EXCEPT ![r].pc = "findRecent", ![r].user = user]
  /\ UNCHANGED <<users, db, now, stats, revs>>

\* Transaction.find resolves with the user's ten latest stored transactions;
\* the six factors run synchronously, the controller builds the document
\* and awaits save
RecentFound(r) ==
  /\ reqs[r].pc = "findRecent"
  /\ LET body == Val(reqs[r].body)
         recentTransactions == FindRecent(db, body.userId)
         analysis == Score(body, Val(reqs[r].user), recentTransactions, now)
     IN reqs' = [reqs EXCEPT ![r].pc = "save",
                             ![r].recent = recentTransactions,
                             ![r].analysis = Some(analysis),
                             ![r].doc = Some(NewTransaction(body, analysis, now))]
  /\ UNCHANGED <<users, db, now, stats, revs>>

\* transaction.save() resolves: schema validation (amount is required)
\* rejects with 400, otherwise the document is inserted and 201 is sent
Save(r) ==
  /\ reqs[r].pc = "save"
  /\ LET doc == Val(reqs[r].doc)
     IN IF ~Has(doc.amount)
        THEN /\ reqs' = [reqs EXCEPT ![r].pc = "rejected"]
             /\ db' = db
        ELSE /\ db' = Append(db, [doc EXCEPT !.id = Len(db) + 1])
             /\ reqs' = [reqs EXCEPT ![r].pc = "done",
                                     ![r].doc = Some([doc EXCEPT !.id = Len(db) + 1])]
  /\ UNCHANGED <<users, now, stats, revs>>

-----------------------------------------------------------------------------
(* The statistics summaries: getFraudStatistics (dashboard) and            *)
(* getTransactionStats (controller). Both await three countDocuments in a  *)
(* row and then format the percentage                                      *)

IdleStats ==
  [pc |-> "idle", kind |-> "none", totalTransactions |-> 0,
   flaggedTransactions |-> 0, confirmedFraudTransactions |-> 0,
   summary |-> None]

StatsKinds == {"getFraudStatistics", "getTransactionStats"}

flaggedCount(collection) ==
  Cardinality({k \in 1..Len(collection) : collection[k].isFlagged})

confirmedFraudCount(collection) ==
  Cardinality({k \in 1..Len(collection) : collection[k].isConfirmedFraud})

\* (flagged / total * 100).toFixed(2): 0/0 is NaN and n/0 is Infinity, which
\* toFixed prints as "NaN" and "Infinity"; otherwise the value rounded to
\* hundredths
flaggedPercentage(flagged, total) ==
  IF total = 0
  THEN [text |-> IF flagged = 0 THEN "NaN" ELSE "Infinity", hundredths |-> 0]
  ELSE [text |-> "number",
        hundredths |-> (2 * flagged * 10000 + total) \div (2 * total)]

StatsStart ==
  /\ stats.pc = "idle"
  /\ \E kind \in StatsKinds :
       stats' = [IdleStats EXCEPT !.pc = "countAll", !.kind = kind]
  /\ UNCHANGED <<users, db, now, reqs, revs>>

\* Transaction.countDocuments()
CountAll ==
  /\ stats.pc = "countAll"
  /\ stats' = [stats EXCEPT !.pc = "countFlagged",
                            !.totalTransactions = Len(db)]
  /\ UNCHANGED <<users, db, now, reqs, revs>>

\* Transaction.countDocuments({ isFlagged: true })
CountFlagged ==
  /\ stats.pc = "countFlagged"
  /\ stats' = [stats EXCEPT !.pc = "countConfirmed",
                            !.flaggedTransactions = flaggedCount(db)]
  /\ UNCHANGED <<users, db, now, reqs, revs>>

\* Transaction.countDocuments({ isConfirmedFraud: true }); the aggregations
\* that follow only fill the other fields of the response, and the summary
\* is sent
CountConfirmed ==
  /\ stats.pc = "countConfirmed"
  /\ LET confirmed == confirmedFraudCount(db)
     IN stats' = [stats EXCEPT
          !.pc = "done",
          !.confirmedFraudTransactions = confirmed,
          !.summary = Some(
             [totalTransactions |-> stats.totalTransactions,
              flaggedTransactions |-> stats.flaggedTransactions,
              confirmedFraudTransactions |-> confirmed,
              flaggedPercentage |->
                 flaggedPercentage(stats.flaggedTransactions,
                                   stats.totalTransactions)])]
  /\ UNCHANGED <<users, db, now, reqs, revs>>

-----------------------------------------------------------------------------
(* The reviewer routes: PUT /:id/confirm and PUT /:id/false-positive       *)
(* (routes/fraudCases.js) and PUT /:id/fraud-status (updateFraudStatus).   *)
(* Each loads the document with findById, assigns fields and awaits        *)
(* save(), which writes the paths whose value the handler changed          *)

Reviews == 1..MaxRev

NoChanges == [fraudScore |-> None, isFlagged |-> None, isConfirmedFraud |-> None]

\* status: the HTTP status of the slot's last response (0 before the first)
IdleRev ==
  [pc |-> "idle", kind |-> "none", id |-> 0, changes |-> NoChanges, status |-> 0]

\* confirm, false-positive, and fraud-status with isConfirmedFraud true,
\* false or absent from the body
ReviewKinds ==
  {"confirm", "falsePositive", "fraudStatusTrue", "fraudStatusFalse",
   "fraudStatusUndefined"}

\* req.params.id: the oldest document, one of the two newest, or an id that
\* no document has (documents are never deleted)
TargetIds(collection) ==
  {i \in {1, Len(collection) - 1, Len(collection), Len(collection) + 1} : i >= 1}

\* an assignment marks the path modified when it changes the loaded value
Assigned(old, new) == IF new = old THEN None ELSE Some(new)

\* false-positive without its first assignment: the score is reset and the
\* flag is left
AssignmentsScoreOnly(kind, transaction) ==
  CASE kind \in {"confirm", "fraudStatusTrue"} ->
         [NoChanges EXCEPT
            !.isConfirmedFraud = Assigned(transaction.isConfirmedFraud, TRUE)]
    [] kind = "falsePositive" ->
         [NoChanges EXCEPT !.fraudScore = Assigned(transaction.fraudScore, 0)]
    [] kind = "fraudStatusFalse" ->
         [NoChanges EXCEPT
            !.isConfirmedFraud = Assigned(transaction.isConfirmedFraud, FALSE),
            !.isFlagged = Assigned(transaction.isFlagged, FALSE)]

\* the assignments of each handler on the loaded document
Assignments(kind, transaction) ==
  CASE kind = "confirm" ->
         [NoChanges EXCEPT
            !.isConfirmedFraud = Assigned(transaction.isConfirmedFraud, TRUE)]
    [] kind = "falsePositive" ->
         [NoChanges EXCEPT
            !.isFlagged = Assigned(transaction.isFlagged, FALSE),
            !.fraudScore = Assigned(transaction.fraudScore, 0)]
    [] kind = "fraudStatusTrue" ->
         [NoChanges EXCEPT
            !.isConfirmedFraud = Assigned(transaction.isConfirmedFraud, TRUE)]
    [] kind = "fraudStatusFalse" ->
         [NoChanges EXCEPT
            !.isConfirmedFraud = Assigned(transaction.isConfirmedFraud, FALSE),
            !.isFlagged = Assigned(transaction.isFlagged, FALSE)]

\* save(): $set of the modified paths on the stored document
ApplyChanges(transaction, changes) ==
  [transaction EXCEPT
     !.fraudScore = IF Has(changes.fraudScore) THEN Val(changes.fraudScore) ELSE @,
     !.isFlagged = IF Has(changes.isFlagged) THEN Val(changes.isFlagged) ELSE @,
     !.isConfirmedFraud =
        IF Has(changes.isConfirmedFraud) THEN Val(changes.isConfirmedFraud) ELSE @]

\* the request arrives; updateFraudStatus answers 400 at once when the body
\* has no isConfirmedFraud, the others await findById
ReviewStart(v) ==
  /\ revs[v].pc = "idle"
  /\ \E kind \in ReviewKinds : \E id \in TargetIds(db) :
       revs' = [revs EXCEPT ![v] =
                  IF kind = "fraudStatusUndefined"
                  THEN [IdleRev EXCEPT !.status = 400]
                  ELSE [IdleRev EXCEPT !.pc = "find", !.kind = kind, !.id = id]]
  /\ UNCHANGED <<users, db, now, reqs, stats>>

\* findById resolves: 404 without a document, otherwise the handler assigns
\* its fields and awaits save
ReviewFound(v) ==
  /\ revs[v].pc = "find"
  /\ IF revs[v].id > Len(db)
     THEN revs' = [revs EXCEPT ![v] = [IdleRev EXCEPT !.status = 404]]
     ELSE revs' = [revs EXCEPT ![v].pc = "save",
                               ![v].changes = Assignments(revs[v].kind, db[revs[v].id])]
  /\ UNCHANGED <<users, db, now, reqs, stats>>

\* save resolves: the modified paths are written and the document is sent
ReviewSaved(v) ==
  /\ revs[v].pc = "save"
  /\ db' = [db EXCEPT ![revs[v].id] = ApplyChanges(@, revs[v].changes)]
  /\ revs' = [revs EXCEPT ![v] = [IdleRev EXCEPT !.status = 200]]
  /\ UNCHANGED <<users, now, reqs, stats>>

-----------------------------------------------------------------------------
(* Specifications *)

\* the seeded profile of U1 (seedData.js); U2 has no User document
SeedProfile ==
  [ homeCountry |-> "USA", averageTransactionAmount |-> Some(100),
    frequentCategories |-> {"groceries"}, frequentLocations |-> <<York>>,
    activeHours |-> Some([start |-> 8, end |-> 23]) ]

\* the request bodies of the concurrent specification: an ordinary purchase
\* of U1, a suspicious one that also sets the computed fields, one of a
\* userId without User document, and a purchase of U1 reported two days late
ConcBodies ==
  { MkBody(U1, Some(200), Some([country |-> "USA", city |-> Some(NewYork)]),
           "groceries", None, Some("dev1"), CHOOSE o \in Overrides : ~Has(o.isFlagged)),
    MkBody(U1, Some(550), Some([country |-> "Nigeria", city |-> Some(Lagos)]),
           "electronics", Some(Now0 - 9), Some("dev2"),
           CHOOSE o \in Overrides : Has(o.isFlagged)),
    MkBody(U2, Some(550), Some([country |-> "Nigeria", city |-> Some(Lagos)]),
           "electronics", None, Some("dev2"), CHOOSE o \in Overrides : ~Has(o.isFlagged)),
    MkBody(U1, Some(200), Some([country |-> "USA", city |-> Some(NewYork)]),
           "groceries", Some(Now0 - 2 * HoursPerDay), Some("dev1"),
           CHOOSE o \in Overrides : ~Has(o.isFlagged)) }

\* seed sizes of the concurrent specification: none, one short of the
\* extreme-frequency tier, and more than the history limit
ConcSeeds == {0, HistoryLimit - 1, MaxSeed}

Init ==
  /\ users = [u \in UserIds |-> IF u = U1 THEN Some(SeedProfile) ELSE None]
  /\ \E n \in ConcSeeds : db = Seed(n)
  /\ now = Now0
  /\ reqs = [r \in Requests |-> IdleReq]
  /\ stats = IdleStats
  /\ revs = [v \in Reviews |-> IdleRev]

Next ==
  \/ \E r \in Requests : Receive(r, ConcBodies)
  \/ \E r \in Requests : UserFound(r)
  \/ \E r \in Requests : RecentFound(r)
  \/ \E r \in Requests : Save(r)
  \/ StatsStart
  \/ CountAll
  \/ CountFlagged
  \/ CountConfirmed

Spec == Init /\ [][Next]_vars

\* The scorer alone: one request, served without interleaving, for every
\* profile, seed size and request body of the bounded input sets
ScoreInit ==
  /\ \E profile \in Profiles :
       users = [u \in UserIds |-> IF u = U1 THEN Some(profile) ELSE None]
  /\ \E n \in 0..MaxSeed : db = Seed(n)
  /\ now = Now0
  /\ reqs = [r \in Requests |-> IdleReq]
  /\ stats = IdleStats
  /\ revs = [v \in Reviews |-> IdleRev]

ScoreNext ==
  \/ Receive(1, Bodies)
  \/ UserFound(1)
  \/ RecentFound(1)
  \/ Save(1)

ScoreSpec == ScoreInit /\ [][ScoreNext]_vars

\* the document the seeding script stores for its "unusually large
\* transaction": flagged, with fraudScore 85, 3 hours old
FlaggedSeed ==
  << Doc(1,
         MkBody(U1, Some(500), Some([country |-> "Nigeria", city |-> Some(Lagos)]),
                "electronics", None, Some("unknown_device"), NoChanges),
         Now0 - 3, 85 * Scale, TRUE, FALSE) >>

\* the request bodies of the reviewing specification
ReviewBodies ==
  {b \in ConcBodies : b.userId = U1 /\ b.timestamp # Some(Now0 - 2 * HoursPerDay)}

\* The reviewers: one scoring request, served while reviewer requests come
\* one after the other on each of the MaxRev connections
ReviewInit ==
  /\ users = [u \in UserIds |-> IF u = U1 THEN Some(SeedProfile) ELSE None]
  /\ db \in {<<>>, FlaggedSeed}
  /\ now = Now0
  /\ reqs = [r \in Requests |-> IdleReq]
  /\ stats = IdleStats
  /\ revs = [v \in Reviews |-> IdleRev]

ReviewNext ==
  \/ Receive(1, ReviewBodies)
  \/ UserFound(1)
  \/ RecentFound(1)
  \/ Save(1)
  \/ \E v \in Reviews : ReviewStart(v)
  \/ \E v \in Reviews : ReviewFound(v)
  \/ \E v \in Reviews : ReviewSaved(v)

ReviewSpec == ReviewInit /\ [][ReviewNext]_vars


-----------------------------------------------------------------------------
(* Vocabulary of the claims *)

Analysed(r) == Has(reqs[r].analysis)
Profiled(r) == Has(reqs[r].user)
Succeeded(r) == Analysed(r) /\ ~Has(Val(reqs[r].analysis).error)

\* what each factor adds to an empty accumulator
AmountDelta(t, u) == AmountFactor(Acc0, t, u).score
LocationDelta(t, u) == LocationFactor(Acc0, t, u).score
CategoryDelta(t, u) == CategoryFactor(Acc0, t, u).score
TimeDelta(t, u) == TimeFactor(Acc0, t, u).score
FrequencyDelta(h, n) == FrequencyFactor(Acc0, h, n).score
DeviceDelta(t, h) == DeviceFactor(Acc0, t, h).score

AmountLabels ==
  { "Transaction amount 5x higher than user average",
    "Transaction amount 3x higher than user average",
    "Transaction amount 2x higher than user average" }
LocationLabels ==
  { "Transaction from foreign country", "Transaction from unusual city" }
CategoryLabels == { "Unusual merchant category for this user" }
TimeLabels == { "Transaction outside typical active hours" }
FrequencyLabels ==
  { "Extremely high transaction frequency (>8 in 24h)",
    "High transaction frequency (>5 in 24h)" }
DeviceLabels == { "Transaction from new device" }

\* C1: every returned result has isHighRisk exactly when its score is above
\* 70, and the document built for and stored by processTransaction carries
\* that score and that same comparison, whatever the body said.
C1_FlagIffScoreAbove70 ==
  \A r \in Requests :
    Analysed(r) =>
      LET a == Val(reqs[r].analysis)
          doc == Val(reqs[r].doc)
      IN /\ a.isHighRisk <=> (a.score > 70 * Scale)
         /\ doc.fraudScore = a.score
         /\ doc.isFlagged <=> (a.score > 70 * Scale)
         /\ reqs[r].pc = "done" =>
              /\ db[doc.id].fraudScore = a.score
              /\ db[doc.id].isFlagged <=> (a.score > 70 * Scale)

\* C1 witness: a transaction scoring exactly 70 was stored unflagged although
\* its body asked for isFlagged = true and another fraudScore.
C1_Witness ==
  \E r \in Requests :
    /\ reqs[r].pc = "done"
    /\ Val(reqs[r].analysis).score = 70 * Scale
    /\ Val(reqs[r].body).isFlagged = Some(TRUE)
    /\ Val(reqs[r].body).fraudScore # Some(70 * Scale)
    /\ ~db[Val(reqs[r].doc).id].isFlagged


\* C2: for every transaction of a profiled user the returned score is the sum
\* of the six contributions, each from its own set (in tenths: amount 0, 125,
\* 200 or 250; location 0, 120 or 200; category 0 or 150; time 0 or 150;
\* frequency 0, 140 or 200; device 0 or 50), so it lies between 0 and 100.
C2_ScoreIsSumOfContributions ==
  \A r \in Requests :
    (Analysed(r) /\ Profiled(r)) =>
      LET t == Val(reqs[r].body)
          u == Val(reqs[r].user)
          h == reqs[r].recent
          a == Val(reqs[r].analysis)
      IN /\ AmountDelta(t, u) \in {0, 125, 200, 250}
         /\ CategoryDelta(t, u) \in {0, 150}
         /\ TimeDelta(t, u) \in {0, 150}
         /\ FrequencyDelta(h, now) \in {0, 140, 200}
         /\ DeviceDelta(t, h) \in {0, 50}
         /\ \E l \in {0, 120, 200} :
              /\ ~LocationThrows(t, u) => l = LocationDelta(t, u)
              /\ a.score = AmountDelta(t, u) + l + CategoryDelta(t, u)
                           + TimeDelta(t, u) + FrequencyDelta(h, now)
                           + DeviceDelta(t, h)
         /\ a.score >= 0
         /\ a.score <= 100 * Scale

\* C3: when no User document exists for the userId, analyzeTransaction
\* returns no result: the request never holds an analysis.
C3_NoResultWithoutProfile ==
  \A r \in Requests :
    (reqs[r].pc \notin {"idle", "findUser"}
       /\ ~Has(users[Val(reqs[r].body).userId]))
      => ~Analysed(r)

\* the score the claim C5 expects: a factor whose field is missing counts 0,
\* every other factor counts what it adds on its own
NoSignalScore(t, u, h, nowT) ==
    (IF Has(u.averageTransactionAmount) THEN AmountDelta(t, u) ELSE 0)
  + (IF Has(t.location) /\ Has(Val(t.location).city) /\ u.frequentLocations # <<>>
     THEN LocationDelta(t, u) ELSE 0)
  + CategoryDelta(t, u)
  + (IF Has(t.timestamp) /\ Has(u.activeHours) THEN TimeDelta(t, u) ELSE 0)
  + FrequencyDelta(h, nowT)
  + (IF Has(t.deviceId) THEN DeviceDelta(t, h) ELSE 0)

\* C5: a missing optional field (location, city, deviceId, timestamp, average
\* amount, frequent locations, active hours) raises no error, its factor
\* contributes 0 and the other factors contribute what they would otherwise.
C5_MissingFieldIsNoSignal ==
  \A r \in Requests :
    (Analysed(r) /\ Profiled(r)) =>
      LET t == Val(reqs[r].body)
          u == Val(reqs[r].user)
          a == Val(reqs[r].analysis)
      IN /\ ~Has(a.error)
         /\ a.score = NoSignalScore(t, u, reqs[r].recent, now)

\* every factor at its full-weight trigger
FullWeight(t, u, h, nowT) ==
  /\ Has(t.amount) /\ Has(u.averageTransactionAmount)
  /\ Val(t.amount) > 5 * Val(u.averageTransactionAmount)
  /\ Has(t.location) /\ Val(t.location).country # u.homeCountry
  /\ t.merchantCategory \notin u.frequentCategories
  /\ Has(t.timestamp) /\ Has(u.activeHours)
  /\ \/ Val(t.timestamp) % HoursPerDay < Val(u.activeHours).start
     \/ Val(t.timestamp) % HoursPerDay > Val(u.activeHours).end
  /\ recentCount(h, nowT) > 8
  /\ \A k \in 1..Len(h) : h[k].deviceId # t.deviceId
  /\ t.deviceId # Some("unknown_device")

\* C6: with all six factors at full weight the result is score 100, the six
\* risk-factor strings in the order amount, location, category, time,
\* frequency, device, and isHighRisk.
C6_AllFactorsScore100 ==
  \A r \in Requests :
    (Analysed(r) /\ Profiled(r)
       /\ FullWeight(Val(reqs[r].body), Val(reqs[r].user), reqs[r].recent, now))
      => Val(reqs[r].analysis) =
           [ score |-> 100 * Scale,
             riskFactors |->
               << "Transaction amount 5x higher than user average",
                  "Transaction from foreign country",
                  "Unusual merchant category for this user",
                  "Transaction outside typical active hours",
                  "Extremely high transaction frequency (>8 in 24h)",
                  "Transaction from new device" >>,
             isHighRisk |-> TRUE, error |-> None ]

\* no factor triggered
Benign(t, u, h, nowT) ==
  /\ Has(t.amount) /\ Has(u.averageTransactionAmount)
  /\ Val(t.amount) <= 2 * Val(u.averageTransactionAmount)
  /\ Has(t.location) /\ Val(t.location).country = u.homeCountry
  /\ Has(Val(t.location).city)
  /\ \E k \in 1..Len(u.frequentLocations) :
       \/ Includes(Val(Val(t.location).city), u.frequentLocations[k])
       \/ Includes(u.frequentLocations[k], Val(Val(t.location).city))
  /\ t.merchantCategory \in u.frequentCategories
  /\ Has(t.timestamp) /\ Has(u.activeHours)
  /\ Val(t.timestamp) % HoursPerDay >= Val(u.activeHours).start
  /\ Val(t.timestamp) % HoursPerDay <= Val(u.activeHours).end
  /\ recentCount(h, nowT) <= 5
  /\ Has(t.deviceId)
  /\ \E k \in 1..Len(h) : h[k].deviceId = t.deviceId

\* C7: a transaction within twice the average, in the home country and a
\* frequent city, of a frequent category, within the active hours, with at
\* most 5 recent transactions in 24 hours and a known device scores 0 with no
\* risk factor and is not high-risk.
C7_BenignScoresZero ==
  \A r \in Requests :
    (Analysed(r) /\ Profiled(r)
       /\ Benign(Val(reqs[r].body), Val(reqs[r].user), reqs[r].recent, now))
      => Val(reqs[r].analysis) =
           [score |-> 0, riskFactors |-> <<>>, isHighRisk |-> FALSE, error |-> None]

\* C7 witness: a benign transaction at exactly twice the average, with five
\* recent transactions in the window, has been scored.
C7_Witness ==
  \E r \in Requests :
    /\ Analysed(r) /\ Profiled(r)
    /\ Benign(Val(reqs[r].body), Val(reqs[r].user), reqs[r].recent, now)
    /\ Val(Val(reqs[r].body).amount) = 2 * Val(Val(reqs[r].user).averageTransactionAmount)
    /\ recentCount(reqs[r].recent, now) = 5


\* the tier the claim C8 names for an amount and an average
AmountTier(amount, avg) ==
  IF amount > 5 * avg THEN 25 * Scale
  ELSE IF amount > 3 * avg THEN 20 * Scale
  ELSE IF amount > 2 * avg THEN 125
  ELSE 0

AmountTierLabel(amount, avg) ==
  IF amount > 5 * avg THEN <<"Transaction amount 5x higher than user average">>
  ELSE IF amount > 3 * avg THEN <<"Transaction amount 3x higher than user average">>
  ELSE IF amount > 2 * avg THEN <<"Transaction amount 2x higher than user average">>
  ELSE <<>>

WithAmount(t, amount) == [t EXCEPT !.amount = Some(amount)]

\* C8: exactly one amount tier is applied (> 5x: 25, > 3x: 20, > 2x: 12.5,
\* else 0) with at most one amount string; with the other inputs fixed the
\* score never decreases as the amount grows, and 5.5x the average scores
\* exactly 5 more than 3.5x the average.
C8_AmountTiersMonotonic ==
  \A r \in Requests :
    (Analysed(r) /\ Profiled(r) /\ Has(Val(reqs[r].body).amount)
       /\ Has(Val(reqs[r].user).averageTransactionAmount)) =>
      LET t == Val(reqs[r].body)
          u == Val(reqs[r].user)
          h == reqs[r].recent
          a == Val(reqs[r].analysis)
          avg == Val(u.averageTransactionAmount)
      IN /\ SelectSeq(a.riskFactors, LAMBDA x : x \in AmountLabels)
              = AmountTierLabel(Val(t.amount), avg)
         /\ \A other \in Amounts :
              other >= Val(t.amount) =>
                Score(WithAmount(t, other), u, h, now).score >= a.score
         /\ \A lower \in Amounts :
              AmountTier(Val(t.amount), avg) - AmountTier(lower, avg) =
                a.score - Score(WithAmount(t, lower), u, h, now).score
         /\ Score(WithAmount(t, (avg * 11) \div 2), u, h, now).score
              = Score(WithAmount(t, (avg * 7) \div 2), u, h, now).score + 5 * Scale

\* the factors of a result, in the order of the code, with what each added
Triggered(t, u, h, nowT) ==
  LET delta == << AmountDelta(t, u), LocationDelta(t, u), CategoryDelta(t, u),
                  TimeDelta(t, u), FrequencyDelta(h, nowT), DeviceDelta(t, h) >>
  IN SelectSeq(<<1, 2, 3, 4, 5, 6>>, LAMBDA i : delta[i] > 0)

FactorLabels ==
  << AmountLabels, LocationLabels, CategoryLabels, TimeLabels,
     FrequencyLabels, DeviceLabels >>

\* C9: in every result of a successful scoring, riskFactors holds exactly one
\* string for each factor that contributed more than 0 and none for the
\* others, in the order amount, location, category, time, frequency, device.
C9_OneLabelPerTriggeredFactor ==
  \A r \in Requests :
    (Succeeded(r) /\ Profiled(r)) =>
      LET a == Val(reqs[r].analysis)
          fired == Triggered(Val(reqs[r].body), Val(reqs[r].user),
                             reqs[r].recent, now)
      IN /\ Len(a.riskFactors) = Len(fired)
         /\ \A k \in 1..Len(fired) : a.riskFactors[k] \in FactorLabels[fired[k]]

\* C9 witness: a result whose three strings are those of the amount, the
\* location and the frequency factors, the other three factors being silent.
C9_Witness ==
  \E r \in Requests :
    /\ Succeeded(r) /\ Profiled(r)
    /\ Val(reqs[r].analysis).riskFactors =
         << "Transaction amount 3x higher than user average",
            "Transaction from unusual city",
            "High transaction frequency (>5 in 24h)" >>


\* C4: the summary over an empty corpus has total, flagged and confirmed 0
\* and a flaggedPercentage that is the sentinel 0.00 (or null), never the
\* artifact of a division by zero.
C4_EmptyCorpusSentinel ==
  (Has(stats.summary) /\ db = <<>>) =>
    LET summary == Val(stats.summary)
    IN /\ summary.totalTransactions = 0
       /\ summary.flaggedTransactions = 0
       /\ summary.confirmedFraudTransactions = 0
       /\ summary.flaggedPercentage.text \in {"number", "null"}
       /\ summary.flaggedPercentage.hundredths = 0

Ids(h) == {h[k].id : k \in 1..Len(h)}

\* h is what a query for the latest HistoryLimit transactions of userId may
\* return on the collection
IsLatest(h, collection, userId) ==
  LET mine == {k \in 1..Len(collection) : collection[k].userId = userId}
  IN /\ Len(h) <= HistoryLimit
     /\ Len(h) = IF Cardinality(mine) < HistoryLimit
                 THEN Cardinality(mine) ELSE HistoryLimit
     /\ Cardinality(Ids(h)) = Len(h)
     /\ \A k \in 1..Len(h) : h[k].id \in mine /\ collection[h[k].id] = h[k]
     /\ \A k \in 1..(Len(h) - 1) : h[k].timestamp >= h[k + 1].timestamp
     /\ \A i \in mine :
          i \notin Ids(h) =>
            \A k \in 1..Len(h) : collection[i].timestamp <= h[k].timestamp

\* C10: under every interleaving the history a request reads is the user's
\* (at most 10) latest transactions stored at the time of the read, and the
\* transaction is stored after that read, so that it is never in its own
\* history.
C10_HistoryExcludesOwnTransaction ==
  [][\A r \in Requests :
       /\ (reqs[r].pc = "findRecent" /\ reqs'[r].pc # "findRecent") =>
            IsLatest(reqs'[r].recent, db, Val(reqs[r].body).userId)
       /\ (reqs[r].pc # "done" /\ reqs'[r].pc = "done") =>
            /\ reqs[r].pc = "save"
            /\ Len(db') = Len(db) + 1
            /\ db'[Len(db')].id = Val(reqs'[r].doc).id
            /\ Val(reqs'[r].doc).id \notin Ids(reqs[r].recent)
            /\ Ids(reqs[r].recent) \subseteq 1..Len(db)]_vars

\* C10 witness: two requests of the same user were served concurrently; the
\* first one stored is missing from the full history of the other, which
\* was read before.
C10_Witness ==
  \E r1 \in Requests : \E r2 \in Requests :
    /\ r1 # r2
    /\ reqs[r1].pc = "done" /\ reqs[r2].pc = "done"
    /\ Val(reqs[r1].body).userId = Val(reqs[r2].body).userId
    /\ Len(reqs[r1].recent) = HistoryLimit
    /\ Val(reqs[r2].doc).id < Val(reqs[r1].doc).id
    /\ Val(reqs[r2].doc).id \notin Ids(reqs[r1].recent)
    /\ Val(reqs[r1].doc).id \notin Ids(reqs[r1].recent)

-----------------------------------------------------------------------------
(* Reviewer labels *)

\* reviewer v's save of a confirmation resolves on document i in this step
ConfirmedBy(v, i) ==
  /\ revs[v].pc = "save"
  /\ revs[v].id = i
  /\ revs[v].kind \in {"confirm", "fraudStatusTrue"}
  /\ revs'[v].pc = "idle"

\* C11: isConfirmedFraud is a reviewer-assigned label: a document becomes
\* isConfirmedFraud = true only in a step in which a reviewer's confirmation
\* (PUT /:id/confirm, or updateFraudStatus with isConfirmedFraud = true) is
\* saved on an already stored document; in particular every document that
\* processTransaction inserts has isConfirmedFraud = false, whatever the body.
C11_ConfirmedOnlyByReviewer ==
  [][\A i \in 1..Len(db') :
       (db'[i].isConfirmedFraud /\ (i > Len(db) \/ ~db[i].isConfirmedFraud))
         => (i <= Len(db) /\ \E v \in Reviews : ConfirmedBy(v, i))]_vars

-----------------------------------------------------------------------------
(* Concurrent and consecutive requests of one user *)

\* r1 and r2 are two requests of the same user
SameUser(r1, r2) ==
  /\ r1 # r2
  /\ Has(reqs[r1].body) /\ Has(reqs[r2].body)
  /\ Val(reqs[r1].body).userId = Val(reqs[r2].body).userId

\* r reads its recent history in this step
ReadsHistory(r) == reqs[r].pc = "findRecent" /\ reqs'[r].pc = "save"

HasLabel(analysis, label) ==
  \E k \in 1..Len(analysis.riskFactors) : analysis.riskFactors[k] = label

\* C12 as stated, its second half: when a request of a user is persisted
\* before another request of the same user reads its recent history, the
\* history read contains the transaction persisted first.
C12_LaterHistoryContainsEarlier ==
  [][\A r1 \in Requests : \A r2 \in Requests :
       (SameUser(r1, r2) /\ reqs[r1].pc = "done" /\ ReadsHistory(r2))
         => Val(reqs[r1].doc).id \in Ids(reqs'[r2].recent)]_vars

\* C12, amended: a request that has read its history keeps that snapshot
\* while another request of the same user is persisted, so that two
\* concurrent requests can both score on the same snapshot, neither counted
\* by the other; and a request that reads after another one of the same user
\* was persisted has that transaction in its history, unless the history is
\* full (10 entries) of transactions whose timestamps are not older than it.
C12_SnapshotAndLaterHistory ==
  [][\A r1 \in Requests : \A r2 \in Requests :
       /\ (SameUser(r1, r2) /\ reqs[r1].pc = "save" /\ reqs'[r1].pc = "done"
             /\ reqs[r2].pc = "save")
            => /\ reqs'[r2] = reqs[r2]
               /\ Val(reqs'[r1].doc).id \notin Ids(reqs'[r2].recent)
       /\ (SameUser(r1, r2) /\ reqs[r1].pc = "done" /\ ReadsHistory(r2))
            => LET first == Val(reqs[r1].doc)
                   h == reqs'[r2].recent
               IN \/ first.id \in Ids(h)
                  \/ /\ Len(h) = HistoryLimit
                     /\ \A k \in 1..Len(h) : h[k].timestamp >= first.timestamp]_vars

\* C12 witness: two requests of one user from the same new device were both
\* scored on the same snapshot and both persisted; each counted 8
\* transactions in 24 hours (the lower frequency tier) and found its device
\* new, although the other's transaction makes 9 and carries that device
C12_Witness ==
  \E r1 \in Requests : \E r2 \in Requests :
    /\ SameUser(r1, r2)
    /\ reqs[r1].pc = "done" /\ reqs[r2].pc = "done"
    /\ reqs[r1].recent = reqs[r2].recent
    /\ Val(reqs[r1].doc).id \notin Ids(reqs[r2].recent)
    /\ Val(reqs[r2].doc).id \notin Ids(reqs[r1].recent)
    /\ Val(reqs[r1].doc).deviceId = Val(reqs[r2].doc).deviceId
    /\ Val(reqs[r1].doc).timestamp > now - HoursPerDay
    /\ \A r \in {r1, r2} :
         /\ recentCount(reqs[r].recent, now) = 8
         /\ HasLabel(Val(reqs[r].analysis), "High transaction frequency (>5 in 24h)")
         /\ HasLabel(Val(reqs[r].analysis), "Transaction from new device")

-----------------------------------------------------------------------------
(* The automated flag on the stored records *)

\* reviewer v's save of a request of the given kind resolves in this step
SavedBy(v, kind) ==
  revs[v].pc = "save" /\ revs[v].kind = kind /\ revs'[v].pc = "idle"

FlaggedAbove70 ==
  \A i \in 1..Len(db) : db[i].isFlagged => db[i].fraudScore > 70 * Scale

\* C13: in every reachable state every stored transaction with isFlagged =
\* true has fraudScore > 70; a reviewer step never sets isFlagged to true on
\* a stored transaction, a false-positive save leaves its transaction
\* unflagged with fraudScore 0, and an updateFraudStatus save with
\* isConfirmedFraud = false leaves it unflagged with its fraudScore unchanged;
\* a confirmation changes neither the flag nor the score.
C13_FlaggedImpliesScoreAbove70 ==
  /\ []FlaggedAbove70
  /\ [][\A v \in Reviews :
          LET i == revs[v].id
          IN /\ (revs[v].pc = "save" /\ revs'[v].pc = "idle") =>
                  /\ Len(db') = Len(db)
                  /\ \A k \in 1..Len(db) : db'[k].isFlagged => db[k].isFlagged
                  /\ \A k \in 1..Len(db) : k # i => db'[k] = db[k]
             /\ SavedBy(v, "falsePositive") =>
                  ~db'[i].isFlagged /\ db'[i].fraudScore = 0
             /\ SavedBy(v, "fraudStatusFalse") =>
                  ~db'[i].isFlagged /\ db'[i].fraudScore = db[i].fraudScore
             /\ (SavedBy(v, "confirm") \/ SavedBy(v, "fraudStatusTrue")) =>
                  /\ db'[i].isFlagged = db[i].isFlagged
                  /\ db'[i].fraudScore = db[i].fraudScore]_vars

\* C13 witness: after a request and reviewer actions, the seeded flagged
\* transaction is confirmed and still flagged with its score of 85, and the
\* transaction the request stored above 70 has lost its flag and kept its
\* score
C13_Witness ==
  /\ Len(db) = 2
  /\ reqs[1].pc = "done"
  /\ db[1].isFlagged /\ db[1].isConfirmedFraud /\ db[1].fraudScore = 85 * Scale
  /\ Val(reqs[1].analysis).isHighRisk
  /\ ~db[2].isFlagged /\ db[2].fraudScore = Val(reqs[1].analysis).score
  /\ \E v \in Reviews : revs[v].pc = "idle" /\ revs[v].status = 200

-----------------------------------------------------------------------------
(* The statistics summary under concurrent inserts *)

\* C14: every returned summary is a consistent snapshot of the corpus:
\* flaggedTransactions <= totalTransactions, confirmedFraudTransactions <=
\* totalTransactions, and flaggedPercentage is a number between 0 and 100
\* whenever totalTransactions > 0.
C14_SummaryIsSnapshot ==
  Has(stats.summary) =>
    LET summary == Val(stats.summary)
    IN /\ summary.flaggedTransactions <= summary.totalTransactions
       /\ summary.confirmedFraudTransactions <= summary.totalTransactions
       /\ summary.totalTransactions > 0 =>
            /\ summary.flaggedPercentage.text = "number"
            /\ summary.flaggedPercentage.hundredths \in 0..(100 * 100)

\* a summary over a counted total above 0 with more flagged transactions
\* than that total
SummaryAbove100 ==
  /\ Has(stats.summary)
  /\ Val(stats.summary).totalTransactions > 0
  /\ Val(stats.summary).flaggedPercentage.hundredths > 100 * 100

-----------------------------------------------------------------------------
(* The number of factors behind a high-risk result *)

\* C15: a high-risk result has at least 4 entries in riskFactors (and, for a
\* profiled user, at least 4 factors that contributed); a result without
\* error on at most 3 entries scores at most 25 + 20 + 20 = 65; and a
\* transaction scored on an empty recent history scores at most 80.
C15_HighRiskNeedsFourFactors ==
  \A r \in Requests :
    Analysed(r) =>
      LET a == Val(reqs[r].analysis)
      IN /\ a.isHighRisk => Len(a.riskFactors) >= 4
         /\ (a.isHighRisk /\ Profiled(r)) =>
              Len(Triggered(Val(reqs[r].body), Val(reqs[r].user),
                            reqs[r].recent, now)) >= 4
         /\ (~Has(a.error) /\ Len(a.riskFactors) <= 3) => a.score <= 65 * Scale
         /\ reqs[r].recent = <<>> => a.score <= 80 * Scale

\* C15 witness: a user's first transaction (empty recent history) is
\* high-risk on exactly four factors: amount, location, category and time
\* at full weight (75), the device factor silent
C15_Witness ==
  \E r \in Requests :
    /\ Succeeded(r) /\ Profiled(r)
    /\ reqs[r].recent = <<>>
    /\ Val(reqs[r].analysis).isHighRisk
    /\ Len(Val(reqs[r].analysis).riskFactors) = 4
    /\ Val(reqs[r].analysis).score = 75 * Scale

\* a first transaction that reaches the bound of 80
FirstTransactionAt80 ==
  \E r \in Requests :
    /\ Succeeded(r) /\ Profiled(r)
    /\ reqs[r].recent = <<>>
    /\ Val(reqs[r].analysis).score = 80 * Scale

\* a result on three factors that reaches the bound of 65
ThreeFactorsAt65 ==
  \E r \in Requests :
    /\ Succeeded(r) /\ Profiled(r)
    /\ Len(Val(reqs[r].analysis).riskFactors) = 3
    /\ Val(reqs[r].analysis).score = 65 * Scale

=============================================================================
